---- MODULE Spec2Model ----
(***************************************************************************)
(* Disk monitor (src/main.py): Config construction, notifier selection,    *)
(* SSHDiskChecker.check_disk_usage, DiskMonitor.run_check and the driver   *)
(* loop of main().                                                         *)
(***************************************************************************)
EXTENDS Integers, Sequences, FiniteSets, TLC

\* ------------------------------------------------------------------ bounds
MaxHosts == 2
MaxTicks == 2

\* --------------------------------------------------------- program values
DefaultThreshold == 80
DefaultInterval == 60
Sentinel == -1

DefaultServers == <<"192.168.1.10", "192.168.1.11">>

Hosts == {"192.168.1.10", "192.168.1.11"}

DefaultNotificationConfig ==
    [slack_webhook_url |-> "http://localhost:5000/notify",
     email |-> [smtp_server |-> "", from_addr |-> "", to_addrs |-> <<>>]]

\* Config.__init__, lines 14-22: the attributes set before the file is read.
Defaults ==
    [servers |-> DefaultServers,
     threshold |-> DefaultThreshold,
     interval |-> DefaultInterval,
     log_level |-> "INFO",
     notification_type |-> "slack",
     notification_config |-> DefaultNotificationConfig]

\* ------------------------------------------------- the configuration file
\* Values a config.json may carry for each key (the file is not validated).
FileServers == UNION {[1..n -> Hosts] : n \in 0..MaxHosts}
FileThresholds == {-5, 0, 150}
FileIntervals == {-1}
FileTypes == {"SLACK", "email", "sms"}
FileNotificationConfigs ==
    {[email |-> [smtp_server |-> "smtp.example", from_addr |-> "mon@example",
                 to_addrs |-> <<"ops@example">>]]}
FileExtras == {"x"}

Opt(S) == {<<>>} \cup {<<v>> : v \in S}

FileKeys == {"servers", "threshold", "interval", "notification_type",
             "notification_config", "owner"}

\* The object json.load returns: the keys present in the file, with their values.
FileObject(o) == [k \in {f \in FileKeys : o[f] # <<>>} |-> o[k][1]]

NoData == [k \in {} |-> 0]

\* Percentages the remote df pipeline can print.
Usages == {0, 85}

\* stdout of the remote command: a number followed by "%", or something else.
Outputs == {[numeric |-> FALSE, value |-> 0]}
           \cup {[numeric |-> TRUE, value |-> u] : u \in Usages}

CheckOutcomes == {[kind |-> k, out |-> [numeric |-> FALSE, value |-> 0]] :
                      k \in {"connect_error", "exec_error", "read_error"}}
                 \cup {[kind |-> "output", out |-> o] : o \in Outputs}

VARIABLES fileState, fileData, config, notifier, monitor, pc, exitReason,
          tick, idx, usage, tickLog, openSessions

vars == <<fileState, fileData, config, notifier, monitor, pc, exitReason,
          tick, idx, usage, tickLog, openSessions>>

\* ---------------------------------------------------------------- Config
\* A merge that descends into nested objects instead of replacing them.
DictUpdateDeep(d, data) ==
    [k \in DOMAIN d \cup DOMAIN data |->
        IF k \notin DOMAIN data THEN d[k]
        ELSE IF k = "notification_config" /\ k \in DOMAIN d
        THEN [n \in DOMAIN d[k] \cup DOMAIN data[k] |->
                IF n \in DOMAIN data[k] THEN data[k][n] ELSE d[k][n]]
        ELSE data[k]]

\* dict.update(data), line 28: every key of data is set, the others are kept.
DictUpdate(d, data) ==
    [k \in DOMAIN d \cup DOMAIN data |-> IF k \in DOMAIN data THEN data[k] ELSE d[k]]

\* Config.__init__, lines 12-28.
ConfigInit(state, data) ==
    IF state = "exists" THEN DictUpdate(Defaults, data) ELSE Defaults

\* str.lower() on the notification types in play.
Lower(s) ==
    CASE s = "SLACK" -> "slack"
      [] s = "EMAIL" -> "email"
      [] OTHER -> s

\* A selection that falls back to Slack for any other type.
SelectNotifierFallback(type) ==
    IF Lower(type) = "email" THEN "email" ELSE "slack"

\* main, lines 156-162: the notifier chosen for a notification type.
SelectNotifier(type) ==
    IF Lower(type) = "slack" THEN "slack"
    ELSE IF Lower(type) = "email" THEN "email"
    ELSE "unsupported"

\* main, lines 157 and 159: the key read from notification_config.
NotifierKey(kind) == IF kind = "slack" THEN "slack_webhook_url" ELSE "email"

\* ------------------------------------------------------------- notifiers
\* A notify without the try/except: a delivery failure propagates.
SlackNotifyPropagates(outcome) == IF outcome = "sent" THEN "returned" ELSE "raised"

\* SlackNotifier.notify, lines 67-73: every exception is caught and logged.
SlackNotify(outcome) == "returned"

\* EmailNotifier.notify, lines 86-98: every exception is caught and logged.
EmailNotify(outcome) == "returned"

SlackOutcomes == {"sent", "post_error", "http_error"}
EmailOutcomes == {"sent", "smtp_error"}

NotifyOutcomes(kind) == IF kind = "slack" THEN SlackOutcomes ELSE EmailOutcomes

NotifierNotify(kind, outcome) ==
    IF kind = "slack" THEN SlackNotify(outcome) ELSE EmailNotify(outcome)

\* --------------------------------------------------------------- checker
\* int(usage_str.replace("%", "")), line 128.
ParseOk(out) == out.numeric

\* A checker that reports a failure as 0 percent.
CheckReturnZero(o) ==
    IF o.kind = "output" /\ ParseOk(o.out) THEN o.out.value ELSE 0

\* SSHDiskChecker.check_disk_usage, lines 114-133: the value returned.
CheckReturn(o) ==
    IF o.kind = "output" /\ ParseOk(o.out) THEN o.out.value ELSE Sentinel

\* Lines 120-126: a session is established by connect and closed only at
\* line 126, which is reached only when exec_command and read succeeded.
SessionOpened(o) == o.kind # "connect_error"
SessionClosed(o) == o.kind = "output"

CheckFailed(o) == ~(o.kind = "output" /\ ParseOk(o.out))

\* --------------------------------------------------------------- monitor
\* Comparisons a slip would write at line 146.
ShouldNotifyStrict(u, threshold) == u > threshold
ShouldNotifyOrFailed(u, threshold) == u >= threshold \/ u < 0

\* DiskMonitor.run_check, line 146.
ShouldNotify(u, threshold) == u >= threshold

\* DiskMonitor.run_check, line 147: the f-string, piece by piece.
Message(server, u) == <<"Warning: ", server, " disk usage at ", u, "%">>

\* A loop step that skips a host.
NextIndexSkip(i) == i + 2

\* DiskMonitor.run_check, line 144: the for loop's step.
NextIndex(i) == i + 1

LoopPc(i, n) == IF i <= n THEN "check" ELSE "sleep"

\* time.sleep(config.interval), line 173: a negative length raises ValueError.
SleepRaises(seconds) == seconds < 0

\* ------------------------------------------------------------------ Init
Init ==
    /\ fileState \in {"nopath", "missing", "invalid", "exists"}
    /\ IF fileState = "exists"
       THEN \E sv \in Opt(FileServers), th \in Opt(FileThresholds),
               iv \in Opt(FileIntervals), nt \in Opt(FileTypes),
               nc \in Opt(FileNotificationConfigs), ex \in Opt(FileExtras) :
                fileData = FileObject([servers |-> sv, threshold |-> th,
                                       interval |-> iv, notification_type |-> nt,
                                       notification_config |-> nc, owner |-> ex])
       ELSE fileData = NoData
    /\ config = NoData
    /\ notifier = "none"
    /\ monitor = [servers |-> <<>>, threshold |-> 0]
    /\ pc = "config"
    /\ exitReason = "none"
    /\ tick = 1
    /\ idx = 1
    /\ usage = 0
    /\ tickLog = <<>>
    /\ openSessions = 0

\* --------------------------------------------------------------- actions
\* main, line 151: config = Config("config.json").
LoadConfig ==
    /\ pc = "config"
    /\ IF fileState = "invalid"
       THEN /\ pc' = "exited"
            /\ exitReason' = "JSONDecodeError"
            /\ UNCHANGED config
       ELSE /\ config' = ConfigInit(fileState, fileData)
            /\ pc' = "startup"
            /\ UNCHANGED exitReason
    /\ UNCHANGED <<fileState, fileData, notifier, monitor, tick, idx, usage,
                   tickLog, openSessions>>

\* main, lines 152-169: logging, notifier, checker, monitor.
Startup ==
    /\ pc = "startup"
    /\ LET kind == SelectNotifier(config.notification_type) IN
       IF kind = "unsupported"
       THEN /\ pc' = "exited"
            /\ exitReason' = "ValueError: Unsupported notifier type"
            /\ UNCHANGED <<notifier, monitor>>
       ELSE IF NotifierKey(kind) \notin DOMAIN config.notification_config
       THEN /\ pc' = "exited"
            /\ exitReason' = "KeyError"
            /\ UNCHANGED <<notifier, monitor>>
       ELSE /\ notifier' = kind
            /\ monitor' = [servers |-> config.servers, threshold |-> config.threshold]
            /\ pc' = LoopPc(1, Len(config.servers))
            /\ UNCHANGED exitReason
    /\ UNCHANGED <<fileState, fileData, config, tick, idx, usage, tickLog,
                   openSessions>>

\* run_check, lines 144-146: one host is checked and its usage compared.
CheckHost ==
    /\ pc = "check"
    /\ idx <= Len(monitor.servers)
    /\ \E o \in CheckOutcomes :
        LET u == CheckReturn(o) IN
        /\ usage' = u
        /\ openSessions' = openSessions
                           + (IF SessionOpened(o) /\ ~SessionClosed(o) THEN 1 ELSE 0)
        /\ tickLog' = Append(tickLog,
                             [op |-> "check", idx |-> idx, failed |-> CheckFailed(o),
                              usage |-> u, msg |-> <<>>])
        /\ IF ShouldNotify(u, monitor.threshold)
           THEN /\ pc' = "notify"
                /\ UNCHANGED idx
           ELSE /\ idx' = NextIndex(idx)
                /\ pc' = LoopPc(NextIndex(idx), Len(monitor.servers))
    /\ UNCHANGED <<fileState, fileData, config, notifier, monitor, exitReason, tick>>

\* run_check, line 147: the notification for the host just checked.
Notify ==
    /\ pc = "notify"
    /\ \E outcome \in NotifyOutcomes(notifier) :
        /\ tickLog' = Append(tickLog,
                             [op |-> "notify", idx |-> idx, failed |-> outcome # "sent",
                              usage |-> usage,
                              msg |-> Message(monitor.servers[idx], usage)])
        /\ IF NotifierNotify(notifier, outcome) = "returned"
           THEN /\ idx' = NextIndex(idx)
                /\ pc' = LoopPc(NextIndex(idx), Len(monitor.servers))
                /\ UNCHANGED exitReason
           ELSE /\ pc' = "exited"
                /\ exitReason' = "notify raised"
                /\ UNCHANGED idx
    /\ UNCHANGED <<fileState, fileData, config, notifier, monitor, tick, usage,
                   openSessions>>

\* main, lines 171-173: time.sleep(config.interval), then the next run_check.
Sleep ==
    /\ pc = "sleep"
    /\ IF SleepRaises(config.interval)
       THEN /\ pc' = "exited"
            /\ exitReason' = "ValueError: sleep length must be non-negative"
            /\ UNCHANGED <<tick, idx, tickLog, usage>>
       ELSE /\ tick < MaxTicks
            /\ tick' = tick + 1
            /\ idx' = 1
            /\ tickLog' = <<>>
            /\ usage' = 0
            /\ pc' = LoopPc(1, Len(monitor.servers))
            /\ UNCHANGED exitReason
    /\ UNCHANGED <<fileState, fileData, config, notifier, monitor, openSessions>>

Next == LoadConfig \/ Startup \/ CheckHost \/ Notify \/ Sleep

Spec == Init /\ [][Next]_vars

\* ---------------------------------------------------------------- claims
Started == notifier # "none"

NumHosts == Len(monitor.servers)

CheckEvents(i) == {j \in DOMAIN tickLog : tickLog[j].op = "check" /\ tickLog[j].idx = i}

NotifyEvents(i) == {j \in DOMAIN tickLog : tickLog[j].op = "notify" /\ tickLog[j].idx = i}

\* The loop body for list entry i has run to its end in the current tick.
IterationDone(i) == CheckEvents(i) # {} /\ ~(pc = "notify" /\ idx = i)

Checks == SelectSeq(tickLog, LAMBDA e : e.op = "check")

\* C1: in every tick, for every entry of the host list whose check returned a
\* value >= threshold, exactly one notification is sent in that tick for that
\* entry, and its message is 'Warning: <host> disk usage at <usage>%' with that
\* host and that usage.
C1_OneNotificationPerBreach ==
    Started =>
        \A i \in 1..NumHosts : \A c \in CheckEvents(i) :
            (tickLog[c].usage >= monitor.threshold /\ IterationDone(i)) =>
                /\ Cardinality(NotifyEvents(i)) = 1
                /\ \A j \in NotifyEvents(i) :
                      tickLog[j].msg = <<"Warning: ", monitor.servers[i],
                                         " disk usage at ", tickLog[c].usage, "%">>

\* Second tick, sweep finished, the first host at 85 percent was notified once
\* and the second host at 0 percent was not (threshold 80).
C1_Witness ==
    /\ tick = 2 /\ pc = "sleep" /\ NumHosts = 2 /\ monitor.threshold = 80
    /\ \E c \in CheckEvents(1) : tickLog[c].usage = 85
    /\ \E c \in CheckEvents(2) : tickLog[c].usage = 0
    /\ Cardinality(NotifyEvents(1)) = 1
    /\ Len(tickLog) = 3

\* C2: in every tick, for every entry of the host list whose check returned a
\* value strictly below the threshold, no notification is sent for that entry.
C2_NoNotificationBelowThreshold ==
    Started =>
        \A i \in 1..NumHosts : \A c \in CheckEvents(i) :
            tickLog[c].usage < monitor.threshold =>
                /\ NotifyEvents(i) = {}
                /\ ~(pc = "notify" /\ idx = i)

\* A successful check below the threshold, its iteration over, in tick 2.
C2_Witness ==
    /\ tick = 2 /\ pc = "sleep" /\ NumHosts = 2 /\ monitor.threshold = 80
    /\ \E c \in CheckEvents(2) : tickLog[c].usage = 0 /\ ~tickLog[c].failed
    /\ NotifyEvents(2) = {}
    /\ NotifyEvents(1) # {}

\* C3: a failed check returns the sentinel -1 (it does not raise, the sweep
\* goes on), and for every threshold >= 0 no notification is sent for it.
C3_FailedCheckNeverNotifies ==
    Started =>
        /\ exitReason \in {"none", "ValueError: sleep length must be non-negative"}
        /\ \A j \in DOMAIN tickLog :
              (tickLog[j].op = "check" /\ tickLog[j].failed) =>
                  /\ tickLog[j].usage = -1
                  /\ monitor.threshold >= 0 =>
                        /\ NotifyEvents(tickLog[j].idx) = {}
                        /\ ~(pc = "notify" /\ idx = tickLog[j].idx)

\* A failed check under threshold 0, followed by the check of the next host.
C3_Witness ==
    /\ Started /\ monitor.threshold = 0 /\ Len(tickLog) >= 2
    /\ tickLog[1].op = "check" /\ tickLog[1].failed
    /\ tickLog[2].op = "check" /\ tickLog[2].idx = 2

\* C4: a delivery failure in notify (Slack or e-mail) is not propagated: the
\* process does not exit on it, the sweep goes on with the next host, and at
\* the end of the sweep the driver is at its sleep.
C4_NotifyFailureContained ==
    Started =>
        /\ exitReason # "notify raised"
        /\ \A j \in DOMAIN tickLog :
              (tickLog[j].op = "notify" /\ tickLog[j].failed) =>
                  /\ idx > tickLog[j].idx
                  /\ IF j < Len(tickLog)
                     THEN /\ tickLog[j + 1].op = "check"
                          /\ tickLog[j + 1].idx = tickLog[j].idx + 1
                     ELSE /\ tickLog[j].idx < NumHosts => pc = "check"
                          /\ tickLog[j].idx = NumHosts =>
                                \/ pc = "sleep"
                                \/ /\ pc = "exited"
                                   /\ exitReason = "ValueError: sleep length must be non-negative"
        /\ pc = "sleep" => Len(Checks) = NumHosts

\* The first notification failed and the second host was still checked; then
\* the second notification failed too and the driver reached its sleep.
C4_Witness ==
    /\ Started /\ pc = "sleep" /\ Len(tickLog) = 4 /\ tick = 2
    /\ tickLog[2].op = "notify" /\ tickLog[2].failed
    /\ tickLog[3].op = "check" /\ tickLog[3].idx = 2
    /\ tickLog[4].op = "notify" /\ tickLog[4].failed

\* C5: within one tick the hosts are checked once each, in list order, one at
\* a time: the k-th check of the tick is the check of entry k, a notification
\* directly follows the check of its own entry (so before the next check), a
\* failed check does not stop the sweep, and the sweep ends only when every
\* entry has been checked.
C5_SequentialSweep ==
    Started =>
        /\ Len(Checks) <= NumHosts
        /\ \A k \in 1..Len(Checks) : Checks[k].idx = k
        /\ \A j \in DOMAIN tickLog :
              tickLog[j].op = "notify" =>
                  /\ j > 1
                  /\ tickLog[j - 1].op = "check"
                  /\ tickLog[j - 1].idx = tickLog[j].idx
        /\ pc = "check" => idx = Len(Checks) + 1 /\ idx <= NumHosts
        /\ pc = "notify" => idx = Len(Checks)
        /\ pc = "sleep" => Len(Checks) = NumHosts

\* Check 1 failed, check 2 notified, and the sweep is complete.
C5_Witness ==
    /\ Started /\ pc = "sleep" /\ NumHosts = 2 /\ Len(tickLog) = 3
    /\ tickLog[1].op = "check" /\ tickLog[1].failed
    /\ tickLog[2].op = "check" /\ tickLog[2].idx = 2
    /\ tickLog[3].op = "notify" /\ tickLog[3].idx = 2

\* C6: with a notification type that is neither slack nor email (in any
\* letter case), main exits with the ValueError before any check: no check,
\* no notification, no session, no monitor.
C6_UnsupportedTypeIsFatal ==
    (/\ pc # "config"
     /\ exitReason # "JSONDecodeError"
     /\ Lower(config.notification_type) \notin {"slack", "email"}) =>
        /\ pc \in {"startup", "exited"}
        /\ pc = "exited" => exitReason = "ValueError: Unsupported notifier type"
        /\ notifier = "none"
        /\ tickLog = <<>>
        /\ tick = 1
        /\ openSessions = 0

\* The file set notification_type to "sms" and startup has failed.
C6_Witness ==
    /\ pc = "exited"
    /\ exitReason = "ValueError: Unsupported notifier type"
    /\ config.notification_type = "sms"
    /\ Len(config.servers) > 0

\* C7: once startup has succeeded the driver loop never exits on its own.
C7_LoopNeverExits == Started => pc # "exited"

\* C8: after construction, with an existing file every key of the file has the
\* file's value (a nested notification_config entirely) and every default key
\* the file lacks has its default; without a file all fields are the defaults.
C8_ShallowMerge ==
    (pc # "config" /\ exitReason # "JSONDecodeError") =>
        IF fileState = "exists"
        THEN /\ \A k \in DOMAIN fileData : k \in DOMAIN config /\ config[k] = fileData[k]
             /\ \A k \in DOMAIN Defaults \ DOMAIN fileData : config[k] = Defaults[k]
             /\ DOMAIN config = DOMAIN Defaults \cup DOMAIN fileData
        ELSE config = Defaults

\* The file replaced notification_config by an object without the Slack URL
\* and set servers, and left threshold and interval to their defaults.
C8_Witness ==
    /\ pc # "config" /\ fileState = "exists"
    /\ DOMAIN fileData = {"notification_config", "servers", "owner"}
    /\ DOMAIN config.notification_config = {"email"}
    /\ config.threshold = 80 /\ config.interval = 60
    /\ config.servers = <<"192.168.1.11">>

\* C9: no session is left open once check_disk_usage has returned.
C9_NoSessionLeftOpen == openSessions = 0

\* C10: after construction the Monitor's threshold is in 0..100 and the
\* interval given to sleep is positive.
C10_ConfigInRange ==
    Started => monitor.threshold \in 0..100 /\ config.interval > 0

====
